---- MODULE Spec2Model ----
(***************************************************************************)
(* Model of the ChessBlunders.org engine tooling:                          *)
(*   - parse_stockfish_output (cloud-stockfish/lambda_handler.py)          *)
(*   - the score normaliser, /analyze and /evaluate (cloud-stockfish/app.py *)
(*     and local_python/stockfish_interface.py)                            *)
(*   - the blunder walk analyze_game (local_python/tests/test_engines.py)  *)
(*   - the REST service's use of the single shared ENGINE                  *)
(*   - the engine session of lambda_handler.analyze_position                *)
(* Each part has its own specification over the shared variables.          *)
(***************************************************************************)
EXTENDS Integers, Sequences, FiniteSets, TLC

VARIABLES
    \* parse_stockfish_output: the loop's locals
    plines,      \* result["lines"] (insertion order until the final sort)
    pbest,       \* bestmove (None until a bestmove line names a move)
    pn,          \* lines of the output consumed so far
    ppc,         \* "loop" while in the for loop, "returned" afterwards
    pevent,      \* which branch the last iteration took
    presult,     \* the returned dict, once the function has returned
    pline,       \* line.split() of the line the last iteration looked at
    \* one /analyze or /evaluate call (REST handler or LocalStockfish)
    abackend,    \* "app" (cloud-stockfish/app.py), "local" (LocalStockfish) or "cloud" (CloudStockfish)
    areq,        \* the request
    apc,         \* where the call stands
    abefore,     \* what ENGINE.analyse gave for the position (before the move)
    aafter,      \* what ENGINE.analyse gave after the move
    acalls,      \* ENGINE.analyse calls made by this call
    aresp,       \* the response
    apayload,    \* the JSON payload CloudStockfish.analyze posts to /analyze
    \* the score normaliser applied to one raw score
    nraw, nwhite, nblack, nwalkwhite, nwalkblack,
    \* analyze_game: the blunder walk over one game
    wpc,         \* "start", "loop" or "returned"
    wuser,       \* user_color, or "none" when the user is neither player
    wlen,        \* number of moves of game.mainline_moves()
    wply,        \* plies examined so far (the loop's ply)
    wboard,      \* the moves pushed on board, in order
    wtop,        \* top_moves of the last analysed ply
    wanalyses,   \* analyses
    wblunders,   \* blunders
    wcalls,
    wraw,        \* the raw engine scores behind the last analysed ply      \* engine.analyse calls made
    \* the REST service (app.py): the shared ENGINE and the requests in progress
    engine,      \* ENGINE: "none" before the lifespan startup, then "alive" or "dead"
    loop,        \* the request whose handler occupies the event loop, 0 if none
    rstate,      \* per request: "new", "queued", "running" or "done"
    rkind,       \* per request: "analyze" or "evaluate"
    rpc,         \* per running request: the ENGINE.analyse call it is in
    routcome,    \* per request: the HTTP status of its response
    rfailed,     \* per request: the engine crashed or raised during its own analysis
    rwaited,     \* per request: it was submitted while another one was in progress
    \* one run of lambda_handler.analyze_position: the session and its engine process
    spc,         \* where analyze_position stands
    sin,         \* the commands written to the engine's stdin, in order
    sout,        \* the engine's stdout: lines written and not yet read
    scollected,  \* output_lines
    sreadyoks,   \* the "readyok" lines read by the two waits
    sclock,      \* seconds since start_time
    sstatus,     \* the handler's statusCode, 0 while analyze_position runs
    sengine,     \* the process: "running", "hung" (alive, silent for good) or "exited"
    epending,    \* lines the engine has yet to write for the commands it has read
    \* the puzzle trainer: one PracticePage (fix_blunders_interactive.py)
    tpc,           \* "closed" before the page is built, "open", "results" after show_results
    tnum,          \* len(self.blunders)
    current_index, \* self.current_index
    solved,        \* self.solved
    skipped,       \* self.skipped
    attempts,      \* self.attempts
    tshown,        \* index of the puzzle whose position the board shows, -1 for none
    ttimers,       \* after(..., self.load_puzzle) callbacks scheduled and not yet run
    tevent         \* the last user event: its handler, what it read and how it ended

pvars == <<plines, pbest, pn, ppc, pevent, presult, pline>>

avars == <<abackend, areq, apc, abefore, aafter, acalls, aresp, apayload>>

nvars == <<nraw, nwhite, nblack, nwalkwhite, nwalkblack>>

wvars == <<wpc, wuser, wlen, wply, wboard, wtop, wanalyses, wblunders, wcalls, wraw>>

svars == <<engine, loop, rstate, rkind, rpc, routcome, rfailed, rwaited>>

evars == <<spc, sin, sout, scollected, sreadyoks, sclock, sstatus, sengine, epending>>

tvars == <<tpc, tnum, current_index, solved, skipped, attempts, tshown, ttimers, tevent>>

vars == <<pvars, avars, nvars, wvars, svars, evars, tvars>>

None == "None"

----------------------------------------------------------------------------
(* Bounds *)

\* number of output lines one parse run folds over
MaxLines == 3

----------------------------------------------------------------------------
(* parse_stockfish_output                                                  *)
(* A line is the sequence of its whitespace-separated tokens (line.split()) *)
(* joined by single blanks; number tokens are strings, as in the output.   *)

NumTokens == {"-30", "0", "1", "2", "3", "25"}

\* int(token): defined on the tokens that are integer literals
IntOf(t) ==
    CASE t = "-30" -> 0 - 30
      [] t = "0" -> 0
      [] t = "1" -> 1
      [] t = "2" -> 2
      [] t = "3" -> 3
      [] t = "25" -> 25

\* int(token) raises ValueError on any other token
IsIntTok(t) == t \in NumTokens

\* token in parts
InParts(parts, tok) == \E i \in 1..Len(parts) : parts[i] = tok

\* parts.index(tok) + 1, as a 1-based position: the token after the first tok
IndexAfter(parts, tok) ==
    1 + CHOOSE i \in 1..Len(parts) :
            parts[i] = tok /\ \A j \in 1..(i - 1) : parts[j] # tok

\* line.startswith(word) for a line of tokens
StartsWith(parts, word) == Len(parts) >= 1 /\ parts[1] = word

\* " pv " in line: a pv token with a blank on both sides
HasPvInfix(parts) == \E i \in 2..(Len(parts) - 1) : parts[i] = "pv"

\* mutation: bound-only scores are not looked for
HasBoundNever(parts) == FALSE

\* "upperbound" in line or "lowerbound" in line
HasBound(parts) == InParts(parts, "upperbound") \/ InParts(parts, "lowerbound")

\* parts[pv_idx:]
SliceFrom(parts, from) == [k \in 1..(IF from > Len(parts) THEN 0 ELSE Len(parts) - from + 1)
                        |-> parts[from + k - 1]]

\* The try block up to line_data: the set holding the record the line yields,
\* empty when the line is skipped (continue) or int()/indexing raises.
LineData(parts) ==
    IF ~(InParts(parts, "depth") /\ InParts(parts, "score") /\ InParts(parts, "pv"))
    THEN {}
    ELSE LET depth_idx == IndexAfter(parts, "depth")
             score_idx == IndexAfter(parts, "score")
             pv_idx == IndexAfter(parts, "pv")
         IN  IF depth_idx > Len(parts) \/ ~IsIntTok(parts[depth_idx]) THEN {}
             ELSE IF score_idx > Len(parts) THEN {}
             ELSE IF score_idx + 1 > Len(parts) \/ ~IsIntTok(parts[score_idx + 1]) THEN {}
             ELSE IF InParts(parts, "multipv")
                     /\ (IndexAfter(parts, "multipv") > Len(parts)
                         \/ ~IsIntTok(parts[IndexAfter(parts, "multipv")]))
                  THEN {}
             ELSE {[depth |-> IntOf(parts[depth_idx]),
                    score |-> [type |-> IF parts[score_idx] = "mate" THEN "mate" ELSE "cp",
                               value |-> IntOf(parts[score_idx + 1])],
                    pv |-> SliceFrom(parts, pv_idx),
                    multipv |-> IF InParts(parts, "multipv")
                                THEN IntOf(parts[IndexAfter(parts, "multipv")])
                                ELSE 1]}

\* list.remove(x) then list.append(y)
RemoveAppend(lines, x, y) ==
    LET i == CHOOSE k \in 1..Len(lines) :
                 lines[k] = x /\ \A j \in 1..(k - 1) : lines[j] # x
    IN  Append(SubSeq(lines, 1, i - 1) \o SubSeq(lines, i + 1, Len(lines)), y)

\* mutation: a record of equal depth displaces the kept one
DeeperWrong(depth_val, existing) == depth_val >= existing.depth

\* depth_val > existing["depth"]
Deeper(depth_val, existing) == depth_val > existing.depth

\* "Keep only the deepest line for each multipv"
KeepDeepest(lines, line_data) ==
    LET same == {k \in 1..Len(lines) : lines[k].multipv = line_data.multipv}
    IN  IF same # {}
        THEN LET existing == lines[CHOOSE k \in same : \A j \in same : k <= j]
             IN  IF Deeper(line_data.depth, existing)
                 THEN RemoveAppend(lines, existing, line_data)
                 ELSE lines
        ELSE Append(lines, line_data)

\* One iteration of "for line in lines_raw" on the locals [lines, bestmove]
ParseStep(lines, bestmove, parts) ==
    IF StartsWith(parts, "bestmove")
    THEN [lines |-> lines,
          bestmove |-> IF Len(parts) >= 2 THEN parts[2] ELSE bestmove]
    ELSE IF ~StartsWith(parts, "info") THEN [lines |-> lines, bestmove |-> bestmove]
    ELSE IF ~HasPvInfix(parts) THEN [lines |-> lines, bestmove |-> bestmove]
    ELSE IF HasBound(parts) THEN [lines |-> lines, bestmove |-> bestmove]
    ELSE IF LineData(parts) = {} THEN [lines |-> lines, bestmove |-> bestmove]
    ELSE [lines |-> KeepDeepest(lines, CHOOSE d \in LineData(parts) : TRUE),
          bestmove |-> bestmove]

\* The branch one iteration takes
ParseBranch(lines, parts) ==
    IF StartsWith(parts, "bestmove") THEN "bestmove"
    ELSE IF ~StartsWith(parts, "info") \/ ~HasPvInfix(parts) \/ HasBound(parts)
            \/ LineData(parts) = {}
         THEN "ignored"
    ELSE LET d == CHOOSE x \in LineData(parts) : TRUE
             same == {k \in 1..Len(lines) : lines[k].multipv = d.multipv}
         IN  IF same = {} THEN "added"
             ELSE IF Deeper(d.depth, lines[CHOOSE k \in same : \A j \in same : k <= j])
                  THEN "replaced"
                  ELSE "kept"

\* mutation: the list is returned in insertion order
Unsorted(lines) == lines

\* result["lines"].sort(key=lambda x: x["multipv"]): a stable sort
RECURSIVE SortByMultipv(_)
SortByMultipv(lines) ==
    IF Len(lines) <= 1 THEN lines
    ELSE LET i == CHOOSE k \in 1..Len(lines) :
                      /\ \A j \in 1..Len(lines) : lines[k].multipv <= lines[j].multipv
                      /\ \A j \in 1..(k - 1) : lines[j].multipv # lines[k].multipv
         IN  <<lines[i]>> \o
             SortByMultipv(SubSeq(lines, 1, i - 1) \o SubSeq(lines, i + 1, Len(lines)))

\* mutation: the best move is always taken from the first record
ParseReturnFromRecords(lines, bestmove) ==
    IF Len(lines) > 0 /\ Len(lines[1].pv) > 0
    THEN [lines |-> lines, bestmove |-> lines[1].pv[1], raised |-> FALSE]
    ELSE [lines |-> lines, bestmove |-> None, raised |-> TRUE]

\* The code after the loop: sort, then set bestmove. "raised" stands for the
\* IndexError of lines[0]["pv"][0] on an empty pv.
ParseReturn(lines, bestmove) ==
    LET sorted == SortByMultipv(lines)
    IN  IF bestmove # None
        THEN [lines |-> sorted, bestmove |-> bestmove, raised |-> FALSE]
        ELSE IF Len(sorted) > 0
             THEN IF Len(sorted[1].pv) > 0
                  THEN [lines |-> sorted, bestmove |-> sorted[1].pv[1], raised |-> FALSE]
                  ELSE [lines |-> sorted, bestmove |-> None, raised |-> TRUE]
             ELSE [lines |-> sorted, bestmove |-> None, raised |-> FALSE]

\* Engine output lines the parse runs are fed with
InfoLine(d, mpv, st, v, tail) ==
    <<"info", "depth", d>> \o (IF mpv = "" THEN <<>> ELSE <<"multipv", mpv>>)
        \o <<"score", st, v>> \o tail

PvTails == {<<"pv", "e2e4">>, <<"pv", "d2d4", "d7d5">>}

WellFormedLines ==
    {InfoLine(d, mpv, st, "25", <<"pv", "e2e4">>) :
        d \in {"1", "2"}, mpv \in {"", "1", "2"}, st \in {"cp", "mate"}}
      \cup {InfoLine(d, "", "cp", "-30", t) : d \in {"1", "2"}, t \in PvTails}

OtherLines ==
    { <<>>,
      <<"bestmove", "e2e4">>,
      <<"bestmove", "d2d4", "ponder", "d7d5">>,
      <<"bestmove">>,
      <<"readyok">>,
      <<"info", "string", "NNUE", "evaluation">>,
      <<"info", "depth", "3", "currmove", "e2e4", "currmovenumber", "1">>,
      <<"info", "depth", "3", "score", "cp", "25", "pv">>,
      <<"info", "depth", "3", "score", "cp", "25", "upperbound", "pv", "e2e4">>,
      <<"info", "depth", "3", "score", "cp", "25", "lowerbound", "pv", "e2e4">>,
      <<"info", "depth", "x", "score", "cp", "25", "pv", "e2e4">>,
      <<"info", "depth", "3", "score", "cp", "x", "pv", "e2e4">>,
      <<"info", "depth", "3", "multipv", "x", "score", "cp", "25", "pv", "e2e4">>,
      <<"info", "score", "cp", "25", "pv", "e2e4">>,
      <<"info", "depth", "3", "pv", "e2e4">>,
      <<"info", "depth", "3", "multipv", "2", "score", "cp", "0", "pv", "e2e4">> }

EngineLines == WellFormedLines \cup OtherLines

InitParse ==
    /\ plines = <<>>
    /\ pbest = None
    /\ pn = 0
    /\ ppc = "loop"
    /\ pevent = "start"
    /\ pline = <<>>
    /\ presult = [lines |-> <<>>, bestmove |-> None, raised |-> FALSE]

\* for line in lines_raw: (one iteration)
ParseLine ==
    /\ ppc = "loop"
    /\ pn < MaxLines
    /\ \E parts \in EngineLines :
          LET s == ParseStep(plines, pbest, parts)
          IN  /\ plines' = s.lines
              /\ pbest' = s.bestmove
              /\ pevent' = ParseBranch(plines, parts)
              /\ pline' = parts
    /\ pn' = pn + 1
    /\ UNCHANGED <<ppc, presult>>
    /\ UNCHANGED <<avars, nvars, wvars, svars, evars, tvars>>

\* the end of the loop: sort, set bestmove, return
ParseFinish ==
    /\ ppc = "loop"
    /\ pn >= 1
    /\ ppc' = "returned"
    /\ presult' = ParseReturn(plines, pbest)
    /\ UNCHANGED <<plines, pbest, pn, pevent, pline>>
    /\ UNCHANGED <<avars, nvars, wvars, svars, evars, tvars>>

NextParse == ParseLine \/ ParseFinish

----------------------------------------------------------------------------
(* The score normaliser, /analyze and /evaluate                            *)
(* Optional[int] values are [some, v]; an absent value has v = 0.          *)

Some(v) == [some |-> TRUE, v |-> v]
NoneV == [some |-> FALSE, v |-> 0]

WHITE == "white"
BLACK == "black"
Opposite(turn) == IF turn = WHITE THEN BLACK ELSE WHITE

\* A raw engine score is score.white(): [present, type, value] in white's frame;
\* present = FALSE is info.get("score") returning None.
NoScore == [present |-> FALSE, type |-> "cp", value |-> 0]
Cp(v) == [present |-> TRUE, type |-> "cp", value |-> v]
Mate(n) == [present |-> TRUE, type |-> "mate", value |-> n]

\* mutation: the centipawn value is not negated for black
get_eval_cp_noflip(score, turn) ==
    IF score.type = "mate"
    THEN [cp |-> NoneV, mate_in |-> Some(score.value)]
    ELSE [cp |-> Some(score.value), mate_in |-> NoneV]

\* mutation: the mate count is negated for black, as the centipawn value is
get_eval_cp_mateflip(score, turn) ==
    IF score.type = "mate"
    THEN [cp |-> NoneV,
          mate_in |-> Some(IF turn = BLACK THEN 0 - score.value ELSE score.value)]
    ELSE [cp |-> Some(IF turn = BLACK THEN 0 - score.value ELSE score.value),
          mate_in |-> NoneV]

\* app.get_eval_cp and LocalStockfish._get_eval (the same code): (cp, mate_in)
get_eval_cp(score, turn) ==
    IF score.type = "mate"
    THEN [cp |-> NoneV, mate_in |-> Some(score.value)]
    ELSE [cp |-> Some(IF turn = BLACK THEN 0 - score.value ELSE score.value),
          mate_in |-> NoneV]

\* An engine info: has_pv is '"pv" in info', pv its value, score info.get("score")
RawScores == {NoScore, Cp(0 - 50), Cp(0), Cp(120), Mate(2), Mate(0 - 1)}

RawPvs == {[has_pv |-> FALSE, pv |-> <<>>],
           [has_pv |-> TRUE, pv |-> <<>>],
           [has_pv |-> TRUE, pv |-> <<"e2e4">>],
           [has_pv |-> TRUE, pv |-> <<"d2d4", "d7d5">>]}

Infos == {[has_pv |-> p.has_pv, pv |-> p.pv, score |-> sc] : p \in RawPvs, sc \in RawScores}

\* ENGINE.analyse(board, limit, multipv=n): a list of at most n infos, or raises
Analyses(n) ==
    {[raised |-> TRUE, infos |-> <<>>]}
        \cup {[raised |-> FALSE, infos |-> l] : l \in UNION {[1..k -> Infos] : k \in 0..n}}

NoAnalysis == [raised |-> FALSE, infos |-> <<>>]

\* mutation: an entry is built for an info without looking at its score
MoveInfoOfUnscored(info, turn) ==
    [move_uci |-> info.pv[1], eval_cp |-> NoneV, mate_in |-> NoneV]

\* the loop body of analyze_position / LocalStockfish.analyze for one info with a pv
MoveInfoOf(info, turn) ==
    LET e == IF info.score.present THEN get_eval_cp(info.score, turn)
             ELSE [cp |-> NoneV, mate_in |-> NoneV]
    IN  [move_uci |-> info.pv[1], eval_cp |-> e.cp, mate_in |-> e.mate_in]

\* "for info in analysis": infos without a pv are skipped
RECURSIVE BestMoves(_, _)
BestMoves(infos, turn) ==
    IF Len(infos) = 0 THEN <<>>
    ELSE IF ~infos[1].has_pv \/ Len(infos[1].pv) = 0
         THEN BestMoves(SubSeq(infos, 2, Len(infos)), turn)
         ELSE <<MoveInfoOf(infos[1], turn)>> \o BestMoves(SubSeq(infos, 2, Len(infos)), turn)

\* The search limit: request.depth if truthy, else request.time or 0.3.
\* Times are in tenths of a second.
DEFAULT_TIME == 3

\* mutation: the time limit wins whenever a time is given
AppLimitTimeFirst(req) ==
    IF req.time.some /\ req.time.v # 0
    THEN [kind |-> "time", value |-> req.time.v]
    ELSE IF req.depth.some /\ req.depth.v # 0
    THEN [kind |-> "depth", value |-> req.depth.v]
    ELSE [kind |-> "time", value |-> DEFAULT_TIME]

AppLimit(req) ==
    IF req.depth.some /\ req.depth.v # 0
    THEN [kind |-> "depth", value |-> req.depth.v]
    ELSE [kind |-> "time",
          value |-> IF req.time.some /\ req.time.v # 0 THEN req.time.v ELSE DEFAULT_TIME]

LocalLimit(req) ==
    IF req.depth.some /\ req.depth.v # 0
    THEN [kind |-> "depth", value |-> req.depth.v]
    ELSE [kind |-> "time", value |-> req.time.v]

EmptyResp ==
    [status |-> "none", is_legal |-> FALSE, side_to_move |-> "none",
     best_moves |-> <<>>, limit |-> [kind |-> "none", value |-> 0],
     eval_before_cp |-> NoneV, eval_after_cp |-> NoneV, eval_drop_cp |-> NoneV,
     best_move_uci |-> None]

\* Requests: fen_ok is whether chess.Board(fen) accepts the FEN, turn the side
\* to move in it, move_ok whether Move.from_uci accepts the move, legal whether
\* the move is in board.legal_moves.
Depths == {NoneV, Some(0), Some(12)}
Times == {NoneV, Some(0), Some(1)}

MaxMultipv == 2

AnalyzeRequests ==
    [kind : {"analyze"}, fen_ok : BOOLEAN, turn : {WHITE, BLACK},
     depth : Depths, time : Times, multipv : 1..MaxMultipv,
     move_ok : {TRUE}, legal : {TRUE}]

EvaluateRequests ==
    [kind : {"evaluate"}, fen_ok : BOOLEAN, turn : {WHITE, BLACK},
     depth : {NoneV}, time : Times, multipv : {1},
     move_ok : BOOLEAN, legal : BOOLEAN]

NoRequest ==
    [kind |-> "none", fen_ok |-> TRUE, turn |-> WHITE, depth |-> NoneV,
     time |-> NoneV, multipv |-> 1, move_ok |-> TRUE, legal |-> TRUE]

\* CloudStockfish.analyze: payload = {"fen", "multipv"} and either "depth" or "time"
NoPayload == [has_depth |-> FALSE, depth |-> 0, has_time |-> FALSE, time |-> 0, multipv |-> 0]

CloudPayload(req) ==
    IF req.depth.some /\ req.depth.v # 0
    THEN [has_depth |-> TRUE, depth |-> req.depth.v, has_time |-> FALSE, time |-> 0,
          multipv |-> req.multipv]
    ELSE [has_depth |-> FALSE, depth |-> 0, has_time |-> TRUE, time |-> req.time.v,
          multipv |-> req.multipv]

\* AnalyzeRequest as pydantic builds it from the payload: depth defaults to
\* None and time to 0.3
ServerRequest(payload, req) ==
    [req EXCEPT !.depth = IF payload.has_depth THEN Some(payload.depth) ELSE NoneV,
                !.time = IF payload.has_time THEN Some(payload.time) ELSE Some(DEFAULT_TIME),
                !.multipv = payload.multipv]

\* the chess.engine.Limit the analysis runs under, per backend
LimitOf(b, req) ==
    IF b = "local" THEN LocalLimit(req)
    ELSE IF b = "cloud" THEN AppLimit(ServerRequest(CloudPayload(req), req))
    ELSE AppLimit(req)

\* what the caller sees of a failure: app.py answers with an HTTP status,
\* LocalStockfish raises, CloudStockfish raises from raise_for_status()
FailureStatus(b, http) == IF b = "app" THEN http ELSE "raised"

InitApi ==
    /\ abackend = "app"
    /\ areq = NoRequest
    /\ apc = "idle"
    /\ abefore = NoAnalysis
    /\ aafter = NoAnalysis
    /\ acalls = 0
    /\ aresp = EmptyResp
    /\ apayload = NoPayload

\* POST /analyze (app.analyze_position), LocalStockfish.analyze and
\* CloudStockfish.analyze (which posts to /analyze), whole call
ApiAnalyze ==
    /\ apc = "idle"
    /\ \E b \in {"app", "local", "cloud"}, req \in AnalyzeRequests :
          /\ (b # "app" => req.time.some)
          /\ abackend' = b
          /\ areq' = req
          /\ apayload' = IF b = "cloud" THEN CloudPayload(req) ELSE NoPayload
          /\ IF ~req.fen_ok
             THEN /\ aresp' = [EmptyResp EXCEPT !.status = FailureStatus(b, "400")]
                  /\ acalls' = 0
                  /\ abefore' = NoAnalysis
             ELSE \E an \in Analyses(req.multipv) :
                    /\ abefore' = an
                    /\ acalls' = 1
                    /\ aresp' =
                         IF an.raised
                         THEN [EmptyResp EXCEPT
                                 !.status = FailureStatus(b, "500"),
                                 !.limit = LimitOf(b, req)]
                         ELSE [EmptyResp EXCEPT
                                 !.status = "200",
                                 !.side_to_move = req.turn,
                                 !.limit = LimitOf(b, req),
                                 !.best_moves = BestMoves(an.infos, req.turn)]
    /\ apc' = "done"
    /\ aafter' = NoAnalysis
    /\ UNCHANGED <<pvars, nvars, wvars, svars, evars, tvars>>

\* mutation: the FEN is not parsed before the move is looked at
EvalGateSkipsFen(req) ==
    IF ~req.move_ok THEN "bad_move"
    ELSE IF ~req.legal THEN "illegal"
    ELSE "analyse"

\* mutation: the legality test is missing
EvalGateSkipsLegality(req) ==
    IF ~req.fen_ok THEN "bad_fen"
    ELSE IF ~req.move_ok THEN "bad_move"
    ELSE "analyse"

\* The checks of evaluate_move / LocalStockfish.evaluate before any engine
\* call: chess.Board(fen), Move.from_uci(move), move in board.legal_moves
EvalGate(req) ==
    IF ~req.fen_ok THEN "bad_fen"
    ELSE IF ~req.move_ok THEN "bad_move"
    ELSE IF ~req.legal THEN "illegal"
    ELSE "analyse"

\* evaluate_move / LocalStockfish.evaluate up to the first engine call
EvalBegin ==
    /\ apc = "idle"
    /\ \E b \in {"app", "local"}, req \in EvaluateRequests :
          /\ (b = "local" => req.time.some)
          /\ abackend' = b
          /\ areq' = req
          /\ IF EvalGate(req) = "bad_fen"
             THEN /\ aresp' = [EmptyResp EXCEPT !.status = IF b = "app" THEN "400" ELSE "raised"]
                  /\ apc' = "done"
             ELSE IF EvalGate(req) = "bad_move"
             THEN /\ aresp' = [EmptyResp EXCEPT !.status = IF b = "app" THEN "400" ELSE "200"]
                  /\ apc' = "done"
             ELSE IF EvalGate(req) = "illegal"
             THEN /\ aresp' = [EmptyResp EXCEPT !.status = "200"]
                  /\ apc' = "done"
             ELSE /\ aresp' = [EmptyResp EXCEPT
                                 !.limit = IF b = "app"
                                           THEN AppLimit(req)
                                           ELSE [kind |-> "time", value |-> req.time.v]]
                  /\ apc' = "before"
    /\ acalls' = 0
    /\ abefore' = NoAnalysis
    /\ aafter' = NoAnalysis
    /\ apayload' = NoPayload
    /\ UNCHANGED <<pvars, nvars, wvars, svars, evars, tvars>>

\* What the "Analyze position before move" block leaves in
\* (eval_before_cp, best_move_uci); failed is an exception leaving the block
\* (ENGINE.analyse raising, or ["pv"][0] on an empty pv).
BeforeBlock(an, turn) ==
    IF an.raised THEN [failed |-> TRUE, eval |-> NoneV, best |-> None]
    ELSE IF Len(an.infos) = 0 THEN [failed |-> FALSE, eval |-> NoneV, best |-> None]
    ELSE IF an.infos[1].has_pv /\ Len(an.infos[1].pv) = 0
         THEN [failed |-> TRUE, eval |-> NoneV, best |-> None]
    ELSE [failed |-> FALSE,
          eval |-> IF an.infos[1].score.present
                   THEN get_eval_cp(an.infos[1].score, turn).cp
                   ELSE NoneV,
          best |-> IF an.infos[1].has_pv THEN an.infos[1].pv[1] ELSE None]

\* before_analysis = ENGINE.analyse(board, limit, multipv=1) and its block;
\* app.py catches the exception, LocalStockfish lets it propagate
EvalBeforeAnalysis ==
    /\ apc = "before"
    /\ \E an \in Analyses(1) :
          LET blk == BeforeBlock(an, areq.turn)
          IN  /\ abefore' = an
              /\ IF blk.failed /\ abackend = "local"
                 THEN /\ aresp' = [aresp EXCEPT !.status = "raised"]
                      /\ apc' = "done"
                 ELSE /\ aresp' = [aresp EXCEPT !.eval_before_cp = blk.eval,
                                                !.best_move_uci = blk.best]
                      /\ apc' = "after"
    /\ acalls' = acalls + 1
    /\ UNCHANGED <<abackend, areq, aafter, apayload>>
    /\ UNCHANGED <<pvars, nvars, wvars, svars, evars, tvars>>

\* mutation: the evaluation after the move is not negated back to the mover
AfterBlockNoNegate(an, turn) ==
    IF an.raised THEN [failed |-> TRUE, eval |-> NoneV]
    ELSE IF Len(an.infos) = 0 THEN [failed |-> FALSE, eval |-> NoneV]
    ELSE [failed |-> FALSE,
          eval |-> IF an.infos[1].score.present
                   THEN get_eval_cp(an.infos[1].score, turn).cp
                   ELSE NoneV]

\* What the "Make the move and analyze after" block leaves in eval_after_cp;
\* turn is board.turn after board.push(move)
AfterBlock(an, turn) ==
    IF an.raised THEN [failed |-> TRUE, eval |-> NoneV]
    ELSE IF Len(an.infos) = 0 THEN [failed |-> FALSE, eval |-> NoneV]
    ELSE LET e == IF an.infos[1].score.present
                  THEN get_eval_cp(an.infos[1].score, turn).cp
                  ELSE NoneV
         IN  [failed |-> FALSE, eval |-> IF e.some THEN Some(0 - e.v) ELSE NoneV]

\* mutation: the drop is computed with an unset evaluation read as 0
EvalDropOfUnset(before, after) == Some(before.v - after.v)

\* "Calculate drop"
EvalDrop(before, after) ==
    IF before.some /\ after.some THEN Some(before.v - after.v) ELSE NoneV

\* board.push(move), the second ENGINE.analyse, the drop and the return
EvalAfterAnalysis ==
    /\ apc = "after"
    /\ \E an \in Analyses(1) :
          LET blk == AfterBlock(an, Opposite(areq.turn))
          IN  /\ aafter' = an
              /\ IF blk.failed /\ abackend = "local"
                 THEN aresp' = [aresp EXCEPT !.status = "raised"]
                 ELSE aresp' = [aresp EXCEPT
                                  !.status = "200",
                                  !.is_legal = TRUE,
                                  !.eval_after_cp = blk.eval,
                                  !.eval_drop_cp = EvalDrop(aresp.eval_before_cp, blk.eval)]
    /\ apc' = "done"
    /\ acalls' = acalls + 1
    /\ UNCHANGED <<abackend, areq, abefore, apayload>>
    /\ UNCHANGED <<pvars, nvars, wvars, svars, evars, tvars>>

\* the next call
ApiNextCall ==
    /\ apc = "done"
    /\ apc' = "idle"
    /\ acalls' = 0
    /\ aresp' = EmptyResp
    /\ abefore' = NoAnalysis
    /\ aafter' = NoAnalysis
    /\ abackend' = "app"
    /\ areq' = NoRequest
    /\ apayload' = NoPayload
    /\ UNCHANGED <<pvars, nvars, wvars, svars, evars, tvars>>

NextApi == ApiAnalyze \/ EvalBegin \/ EvalBeforeAnalysis \/ EvalAfterAnalysis \/ ApiNextCall

----------------------------------------------------------------------------
(* The score normaliser on its own                                         *)

\* raw centipawn scores range over -MaxCp..MaxCp, mate counts over -MaxMate..MaxMate
MaxCp == 150
MaxMate == 3

\* test_engines.get_eval_cp: one integer, a mate count encoded around 100000
walk_get_eval_cp(score, turn) ==
    IF ~score.present THEN 0
    ELSE LET cp == IF score.type = "mate"
                   THEN IF score.value > 0
                        THEN 100000 - (score.value * 100)
                        ELSE (0 - 100000) - (score.value * 100)
                   ELSE score.value
         IN  IF turn = BLACK THEN 0 - cp ELSE cp

InitNorm ==
    /\ nraw = NoScore
    /\ nwhite = [cp |-> NoneV, mate_in |-> NoneV]
    /\ nblack = [cp |-> NoneV, mate_in |-> NoneV]
    /\ nwalkwhite = 0
    /\ nwalkblack = 0

\* the normalisers applied to one raw score, for white and for black
Normalize ==
    /\ \E sc \in {Cp(v) : v \in (0 - MaxCp)..MaxCp}
                   \cup {Mate(n) : n \in (0 - MaxMate)..MaxMate} :
          /\ nraw' = sc
          /\ nwhite' = get_eval_cp(sc, WHITE)
          /\ nblack' = get_eval_cp(sc, BLACK)
          /\ nwalkwhite' = walk_get_eval_cp(sc, WHITE)
          /\ nwalkblack' = walk_get_eval_cp(sc, BLACK)
    /\ UNCHANGED <<pvars, avars, wvars, svars, evars, tvars>>

NextNorm == Normalize

----------------------------------------------------------------------------
(* analyze_game: the blunder walk                                          *)

BLUNDER_THRESHOLD_CP == 100
MULTIPV == 3

\* longest game walked
MaxPlies == 3

\* game.mainline_moves() of the game of test_analyze_game_with_blunder
GameMoves == <<"e2e4", "e7e5", "d1h5", "b8c6", "f1c4", "g8f6", "h5f7">>

\* board.turn after the moves pushed so far, from the starting position
TurnOf(board) == IF Len(board) % 2 = 0 THEN WHITE ELSE BLACK

\* What engine.analyse returns to the walk: the info of rank i has no pv or
\* the pv of the i-th candidate, and a raw score or none
Candidates == <<"g1f3", "d2d4", "c2c4">>

WalkScores == {NoScore, Cp(0), Cp(100), Mate(1)}

WalkInfos(i) ==
    {[has_pv |-> FALSE, pv |-> <<>>, score |-> NoScore]}
        \cup {[has_pv |-> TRUE, pv |-> <<Candidates[i]>>, score |-> sc] : sc \in WalkScores}

WalkAnalyses ==
    UNION {{l \in [1..k -> UNION {WalkInfos(i) : i \in 1..MULTIPV}] :
               \A i \in 1..k : l[i] \in WalkInfos(i)} : k \in 0..MULTIPV}

\* the single info of engine.analyse(board_copy, limit) after the played move
PostScores == {NoScore, Cp(0), Cp(1), Cp(100), Mate(0 - 1)}

\* test_engines.analyze_position: {move_uci, eval_cp} of every info with a pv
RECURSIVE TopMoves(_, _)
TopMoves(infos, turn) ==
    IF Len(infos) = 0 THEN <<>>
    ELSE IF ~infos[1].has_pv \/ Len(infos[1].pv) = 0
         THEN TopMoves(SubSeq(infos, 2, Len(infos)), turn)
         ELSE <<[move_uci |-> infos[1].pv[1],
                 eval_cp |-> walk_get_eval_cp(infos[1].score, turn)]>>
              \o TopMoves(SubSeq(infos, 2, Len(infos)), turn)

\* mutation: a drop of exactly the threshold is not a blunder
IsBlunderStrict(drop_cp) == drop_cp > BLUNDER_THRESHOLD_CP

\* is_blunder = drop_cp >= BLUNDER_THRESHOLD_CP
IsBlunder(drop_cp) == drop_cp >= BLUNDER_THRESHOLD_CP

\* mutation: a candidate losing exactly the threshold is kept
RECURSIVE AcceptableInclusive(_, _)
AcceptableInclusive(top_moves, best_eval) ==
    IF Len(top_moves) = 0 THEN <<>>
    ELSE (IF best_eval - top_moves[1].eval_cp <= BLUNDER_THRESHOLD_CP
          THEN <<top_moves[1]>> ELSE <<>>)
         \o AcceptableInclusive(SubSeq(top_moves, 2, Len(top_moves)), best_eval)

\* acceptable = [m for m in top_moves if (best_eval - m["eval_cp"]) < BLUNDER_THRESHOLD_CP]
RECURSIVE Acceptable(_, _)
Acceptable(top_moves, best_eval) ==
    IF Len(top_moves) = 0 THEN <<>>
    ELSE (IF best_eval - top_moves[1].eval_cp < BLUNDER_THRESHOLD_CP
          THEN <<top_moves[1]>> ELSE <<>>)
         \o Acceptable(SubSeq(top_moves, 2, Len(top_moves)), best_eval)

\* The MoveAnalysis of one analysed ply: top_moves is not empty, post is the
\* score of the analysis after the played move
AnalysisOf(ply, board, move, top_moves, post) ==
    LET best_eval == top_moves[1].eval_cp
        played_eval == 0 - walk_get_eval_cp(post, Opposite(TurnOf(board)))
        drop_cp == best_eval - played_eval
    IN  [ply |-> ply,
         move_number |-> (Len(board) \div 2) + 1,
         side |-> TurnOf(board),
         fen_before |-> board,
         played_move_uci |-> move,
         best_move_uci |-> top_moves[1].move_uci,
         eval_before_cp |-> best_eval,
         eval_after_cp |-> played_eval,
         drop_cp |-> drop_cp,
         is_blunder |-> IsBlunder(drop_cp),
         acceptable_moves |-> Acceptable(top_moves, best_eval)]

\* mutation: the puzzle's answer is the move that was played
PuzzleOfPlayed(a) ==
    [ply |-> a.ply, fen |-> a.fen_before, side_to_move |-> a.side,
     move_number |-> a.move_number, played_move_uci |-> a.played_move_uci,
     correct_move_uci |-> a.played_move_uci, eval_drop_cp |-> a.drop_cp,
     acceptable_moves |-> a.acceptable_moves]

\* The BlunderPuzzle built from the values of the ply's MoveAnalysis; ply is
\* the suffix of the puzzle's id
PuzzleOf(a) ==
    [ply |-> a.ply, fen |-> a.fen_before, side_to_move |-> a.side,
     move_number |-> a.move_number, played_move_uci |-> a.played_move_uci,
     correct_move_uci |-> a.best_move_uci, eval_drop_cp |-> a.drop_cp,
     acceptable_moves |-> a.acceptable_moves]

\* the raw scores behind the last analysed ply: info.get("score") of the
\* first top move and of the analysis after the played move
NoRaw == [best |-> NoScore, post |-> NoScore]

\* the info the first top move is taken from
RECURSIVE FirstWithPv(_)
FirstWithPv(infos) ==
    IF infos[1].has_pv /\ Len(infos[1].pv) > 0 THEN infos[1]
    ELSE FirstWithPv(SubSeq(infos, 2, Len(infos)))

InitWalk ==
    /\ wpc = "start"
    /\ wuser = "none"
    /\ wlen = 0
    /\ wply = 0
    /\ wboard = <<>>
    /\ wtop = <<>>
    /\ wanalyses = <<>>
    /\ wblunders = <<>>
    /\ wcalls = 0
    /\ wraw = NoRaw

\* board = game.board(); the user's colour from the headers; an unknown user
\* returns [], []
WalkStart ==
    /\ wpc = "start"
    /\ \E color \in {WHITE, BLACK, "none"}, n \in 0..MaxPlies :
          /\ wuser' = color
          /\ wlen' = n
          /\ wpc' = IF color = "none" THEN "returned" ELSE "loop"
    /\ UNCHANGED <<wply, wboard, wtop, wanalyses, wblunders, wcalls, wraw>>
    /\ UNCHANGED <<pvars, avars, nvars, svars, evars, tvars>>

\* mutation: the other side's plies are sent to the engine too
WalkOpponentPlyAnalysed ==
    /\ wpc = "loop"
    /\ wply < wlen
    /\ TurnOf(wboard) # wuser
    /\ wcalls' = wcalls + 1
    /\ wboard' = Append(wboard, GameMoves[wply + 1])
    /\ wply' = wply + 1
    /\ UNCHANGED <<wpc, wuser, wlen, wtop, wanalyses, wblunders, wraw>>
    /\ UNCHANGED <<pvars, avars, nvars, svars, evars, tvars>>

\* a ply of the other side: board.push(move); continue
WalkOpponentPly ==
    /\ wpc = "loop"
    /\ wply < wlen
    /\ TurnOf(wboard) # wuser
    /\ wboard' = Append(wboard, GameMoves[wply + 1])
    /\ wply' = wply + 1
    /\ UNCHANGED <<wpc, wuser, wlen, wtop, wanalyses, wblunders, wcalls, wraw>>
    /\ UNCHANGED <<pvars, avars, nvars, svars, evars, tvars>>

\* mutation: the empty-result branch continues without board.push(move)
WalkEmptyResultNoPush ==
    /\ wpc = "loop"
    /\ wply < wlen
    /\ TurnOf(wboard) = wuser
    /\ \E an \in WalkAnalyses :
          /\ TopMoves(an, TurnOf(wboard)) = <<>>
          /\ wtop' = <<>>
    /\ wcalls' = wcalls + 1
    /\ wply' = wply + 1
    /\ UNCHANGED <<wpc, wuser, wlen, wboard, wanalyses, wblunders, wraw>>
    /\ UNCHANGED <<pvars, avars, nvars, svars, evars, tvars>>

\* a ply of the user for which analyze_position returns no move:
\* board.push(move); continue
WalkEmptyResult ==
    /\ wpc = "loop"
    /\ wply < wlen
    /\ TurnOf(wboard) = wuser
    /\ \E an \in WalkAnalyses :
          /\ TopMoves(an, TurnOf(wboard)) = <<>>
          /\ wtop' = <<>>
    /\ wcalls' = wcalls + 1
    /\ wboard' = Append(wboard, GameMoves[wply + 1])
    /\ wply' = wply + 1
    /\ UNCHANGED <<wpc, wuser, wlen, wanalyses, wblunders, wraw>>
    /\ UNCHANGED <<pvars, avars, nvars, svars, evars, tvars>>

\* a ply of the user that is analysed: the MoveAnalysis, board.push(move),
\* and the BlunderPuzzle if is_blunder
WalkAnalyzedPly ==
    /\ wpc = "loop"
    /\ wply < wlen
    /\ TurnOf(wboard) = wuser
    /\ \E an \in WalkAnalyses, post \in PostScores :
          LET top_moves == TopMoves(an, TurnOf(wboard))
          IN  /\ top_moves # <<>>
              /\ LET a == AnalysisOf(wply, wboard, GameMoves[wply + 1], top_moves, post)
                 IN  /\ wtop' = top_moves
                     /\ wraw' = [best |-> FirstWithPv(an).score, post |-> post]
                     /\ wanalyses' = Append(wanalyses, a)
                     /\ wblunders' = IF a.is_blunder
                                     THEN Append(wblunders, PuzzleOf(a))
                                     ELSE wblunders
    /\ wcalls' = wcalls + 2
    /\ wboard' = Append(wboard, GameMoves[wply + 1])
    /\ wply' = wply + 1
    /\ UNCHANGED <<wpc, wuser, wlen>>
    /\ UNCHANGED <<pvars, avars, nvars, svars, evars, tvars>>

\* the end of the move list: return analyses, blunders
WalkReturn ==
    /\ wpc = "loop"
    /\ wply = wlen
    /\ wpc' = "returned"
    /\ UNCHANGED <<wuser, wlen, wply, wboard, wtop, wanalyses, wblunders, wcalls, wraw>>
    /\ UNCHANGED <<pvars, avars, nvars, svars, evars, tvars>>

NextWalk == WalkStart \/ WalkOpponentPly \/ WalkEmptyResult \/ WalkAnalyzedPly \/ WalkReturn

----------------------------------------------------------------------------
(* The REST service: concurrent requests on the one shared ENGINE          *)
(* Both handlers are "async def" and contain no await: ENGINE.analyse is a *)
(* blocking call made on the event loop, so a handler that has started     *)
(* keeps the event loop until it returns or raises.                        *)

\* requests submitted to one service process
NumRequests == 2

Requests == 1..NumRequests

InitService ==
    /\ engine = "none"
    /\ loop = 0
    /\ rstate = [r \in Requests |-> "new"]
    /\ rkind = [r \in Requests |-> "analyze"]
    /\ rpc = [r \in Requests |-> "none"]
    /\ routcome = [r \in Requests |-> "none"]
    /\ rfailed = [r \in Requests |-> FALSE]
    /\ rwaited = [r \in Requests |-> FALSE]

\* lifespan, up to the yield: ENGINE = popen_uci(...); ENGINE.configure(...).
\* Nothing assigns ENGINE afterwards.
LifespanStartup ==
    /\ engine = "none"
    /\ engine' = "alive"
    /\ UNCHANGED <<loop, rstate, rkind, rpc, routcome, rfailed, rwaited>>
    /\ UNCHANGED <<pvars, avars, nvars, wvars, evars, tvars>>

\* a client posts /analyze or /evaluate; the server accepts requests once the
\* lifespan startup is over
Submit(r) ==
    /\ engine # "none"
    /\ rstate[r] = "new"
    /\ \E k \in {"analyze", "evaluate"} : rkind' = [rkind EXCEPT ![r] = k]
    /\ rstate' = [rstate EXCEPT ![r] = "queued"]
    /\ rwaited' = [rwaited EXCEPT ![r] = \E q \in Requests : rstate[q] \in {"queued", "running"}]
    /\ UNCHANGED <<engine, loop, rpc, routcome, rfailed>>
    /\ UNCHANGED <<pvars, avars, nvars, wvars, evars, tvars>>

\* mutation: the handlers run on worker threads, as plain "def" endpoints do
CanStartThreaded(r) == rstate[r] = "queued"

\* mutation: a request is only served if no other request is waiting
CanStartNoBacklog(r) ==
    /\ loop = 0
    /\ rstate[r] = "queued"
    /\ \A q \in Requests \ {r} : rstate[q] # "queued"

\* The event loop runs the handler of a waiting request when the handler it
\* was running has returned
CanStart(r) == loop = 0 /\ rstate[r] = "queued"

\* the response that ends the handler of r
Respond(r, status) ==
    /\ rstate' = [rstate EXCEPT ![r] = "done"]
    /\ routcome' = [routcome EXCEPT ![r] = status]
    /\ rpc' = [rpc EXCEPT ![r] = "none"]
    /\ loop' = IF loop = r THEN 0 ELSE loop

\* analyze_position up to ENGINE.analyse: 503 without an ENGINE, 400 on a bad
\* FEN, else the analysis starts
AnalyzeStart(r) ==
    /\ CanStart(r)
    /\ rkind[r] = "analyze"
    /\ IF engine = "none"
       THEN /\ Respond(r, "503")
       ELSE \E fen_ok \in BOOLEAN :
              IF ~fen_ok
              THEN Respond(r, "400")
              ELSE /\ rstate' = [rstate EXCEPT ![r] = "running"]
                   /\ rpc' = [rpc EXCEPT ![r] = "analyse"]
                   /\ loop' = r
                   /\ UNCHANGED routcome
    /\ UNCHANGED <<engine, rkind, rfailed, rwaited>>
    /\ UNCHANGED <<pvars, avars, nvars, wvars, evars, tvars>>

\* evaluate_move up to the first ENGINE.analyse
EvaluateStart(r) ==
    /\ CanStart(r)
    /\ rkind[r] = "evaluate"
    /\ IF engine = "none"
       THEN /\ Respond(r, "503")
       ELSE \E req \in EvaluateRequests :
              IF EvalGate(req) \in {"bad_fen", "bad_move"}
              THEN Respond(r, "400")
              ELSE IF EvalGate(req) = "illegal"
              THEN Respond(r, "200")
              ELSE /\ rstate' = [rstate EXCEPT ![r] = "running"]
                   /\ rpc' = [rpc EXCEPT ![r] = "before"]
                   /\ loop' = r
                   /\ UNCHANGED routcome
    /\ UNCHANGED <<engine, rkind, rfailed, rwaited>>
    /\ UNCHANGED <<pvars, avars, nvars, wvars, evars, tvars>>

\* How an ENGINE.analyse call can end: a result, an exception of a live engine
\* (a timeout, say), the engine process dying under the call, or, on a dead
\* engine, the exception every call then gets
EngineOutcomes(e) ==
    IF e = "alive" THEN {"ok", "error", "crash"} ELSE {"terminated"}

EngineAfter(e, o) == IF o = "crash" THEN "dead" ELSE e

\* ENGINE.analyse of /analyze returns or raises: 200, or 500 "Analysis failed"
AnalyzeReturn(r) ==
    /\ rstate[r] = "running"
    /\ rpc[r] = "analyse"
    /\ \E o \in EngineOutcomes(engine) :
          /\ engine' = EngineAfter(engine, o)
          /\ rfailed' = [rfailed EXCEPT ![r] = @ \/ o \in {"error", "crash"}]
          /\ Respond(r, IF o = "ok" THEN "200" ELSE "500")
    /\ UNCHANGED <<rkind, rwaited>>
    /\ UNCHANGED <<pvars, avars, nvars, wvars, evars, tvars>>

\* the before-analysis of /evaluate returns or raises (the exception is
\* caught); board.push(move) and the after-analysis starts
EvaluateBeforeReturn(r) ==
    /\ rstate[r] = "running"
    /\ rpc[r] = "before"
    /\ \E o \in EngineOutcomes(engine) :
          /\ engine' = EngineAfter(engine, o)
          /\ rfailed' = [rfailed EXCEPT ![r] = @ \/ o \in {"error", "crash"}]
    /\ rpc' = [rpc EXCEPT ![r] = "after"]
    /\ UNCHANGED <<loop, rstate, rkind, routcome, rwaited>>
    /\ UNCHANGED <<pvars, avars, nvars, wvars, evars, tvars>>

\* the after-analysis of /evaluate returns or raises (caught): 200
EvaluateAfterReturn(r) ==
    /\ rstate[r] = "running"
    /\ rpc[r] = "after"
    /\ \E o \in EngineOutcomes(engine) :
          /\ engine' = EngineAfter(engine, o)
          /\ rfailed' = [rfailed EXCEPT ![r] = @ \/ o \in {"error", "crash"}]
    /\ Respond(r, "200")
    /\ UNCHANGED <<rkind, rwaited>>
    /\ UNCHANGED <<pvars, avars, nvars, wvars, evars, tvars>>

\* the steps the server takes by itself
ServiceStep ==
    \/ LifespanStartup
    \/ \E r \in Requests :
          \/ AnalyzeStart(r)
          \/ EvaluateStart(r)
          \/ AnalyzeReturn(r)
          \/ EvaluateBeforeReturn(r)
          \/ EvaluateAfterReturn(r)

NextService == ServiceStep \/ \E r \in Requests : Submit(r)

\* requests with an engine analysis in flight
InFlight == {r \in Requests : rstate[r] = "running" /\ rpc[r] \in {"analyse", "before", "after"}}

----------------------------------------------------------------------------
(* lambda_handler.analyze_position: one engine session                     *)
(* Lines are named by their kind: "uciok", "readyok", "info", "bestmove".  *)

\* "while time.time() - start_time < 25"
READ_TIMEOUT_S == 25

\* seconds the clock advances in one step, and the last second modelled
TickSeconds == 5
MaxClock == 30

\* info lines an engine writes for one search
MaxInfoLines == 2

Others == <<pvars, avars, nvars, wvars, svars, tvars>>

InitSession ==
    /\ spc = "start"
    /\ sin = <<>>
    /\ sout = <<>>
    /\ scollected = <<>>
    /\ sreadyoks = 0
    /\ sclock = 0
    /\ sstatus = 0
    /\ sengine = "running"
    /\ epending = <<>>

\* What a running engine queues for a command it reads
RepliesTo(cmd, n) ==
    CASE cmd = "uci" -> <<"uciok">>
      [] cmd = "isready" -> <<"readyok">>
      [] cmd = "go" -> [k \in 1..n |-> "info"] \o <<"bestmove">>
      [] OTHER -> <<>>

RECURSIVE AllReplies(_, _)
AllReplies(cmds, n) ==
    IF Len(cmds) = 0 THEN <<>>
    ELSE RepliesTo(cmds[1], n) \o AllReplies(SubSeq(cmds, 2, Len(cmds)), n)

\* process.stdin.write(...); flush(): raises BrokenPipeError once the process
\* has exited, and lands in the handler's "except Exception" (500)
Write(cmds, n, next) ==
    IF sengine = "exited"
    THEN /\ spc' = "raised"
         /\ sstatus' = 500
         /\ UNCHANGED <<sin, epending>>
    ELSE /\ spc' = next
         /\ sin' = sin \o cmds
         /\ epending' = IF sengine = "running" THEN epending \o AllReplies(cmds, n)
                        ELSE epending
         /\ UNCHANGED sstatus

\* Popen, then "uci" and "isready"
SessionStart ==
    /\ spc = "start"
    /\ Write(<<"uci", "isready">>, 0, "wait_ready1")
    /\ UNCHANGED <<sout, scollected, sclock, sengine>>
    /\ UNCHANGED sreadyoks
    /\ UNCHANGED Others

\* readline() returns a line: a line of the pipe, or "" at end of file.
\* With an empty pipe and a live process it does not return.
CanReadLine == sout # <<>> \/ sengine = "exited"

LineRead == IF sout # <<>> THEN Head(sout) ELSE ""

\* the first "Wait for readyok" loop, one readline(); then "setoption" and "isready"
WaitReady1 ==
    /\ spc = "wait_ready1"
    /\ CanReadLine
    /\ sout' = IF sout # <<>> THEN Tail(sout) ELSE sout
    /\ IF LineRead = "readyok"
       THEN Write(<<"setoption", "isready">>, 0, "wait_ready2")
       ELSE UNCHANGED <<spc, sin, epending, sstatus>>
    /\ UNCHANGED <<scollected, sclock, sengine>>
    /\ sreadyoks' = IF LineRead = "readyok" THEN sreadyoks + 1 ELSE sreadyoks
    /\ UNCHANGED Others

\* mutation: "position" and "go" are written without waiting for the readyok
\* that answers the isready sent after setoption
SearchWithoutWaiting ==
    /\ spc = "wait_ready2"
    /\ \E n \in 0..MaxInfoLines : Write(<<"position", "go">>, n, "loop")
    /\ UNCHANGED <<sout, scollected, sreadyoks, sclock, sengine>>
    /\ UNCHANGED Others

\* the second "Wait for readyok" loop, one readline(); then "position" and
\* "go", and start_time = time.time()
WaitReady2 ==
    /\ spc = "wait_ready2"
    /\ CanReadLine
    /\ sout' = IF sout # <<>> THEN Tail(sout) ELSE sout
    /\ IF LineRead = "readyok"
       THEN \E n \in 0..MaxInfoLines : Write(<<"position", "go">>, n, "loop")
       ELSE UNCHANGED <<spc, sin, epending, sstatus>>
    /\ UNCHANGED <<scollected, sclock, sengine>>
    /\ sreadyoks' = IF LineRead = "readyok" THEN sreadyoks + 1 ELSE sreadyoks
    /\ UNCHANGED Others

\* the loop condition: time.time() - start_time < 25
LoopCheck ==
    /\ spc = "loop"
    /\ spc' = IF sclock < READ_TIMEOUT_S THEN "readline" ELSE "cleanup"
    /\ UNCHANGED <<sin, sout, scollected, sclock, sstatus, sengine, epending>>
    /\ UNCHANGED sreadyoks
    /\ UNCHANGED Others

\* line = process.stdout.readline() in the loop, and what the body does with it
ReadLine ==
    /\ spc = "readline"
    /\ CanReadLine
    /\ sout' = IF sout # <<>> THEN Tail(sout) ELSE sout
    /\ scollected' = IF LineRead # "" THEN Append(scollected, LineRead) ELSE scollected
    /\ spc' = IF LineRead = "bestmove" THEN "cleanup" ELSE "loop"
    /\ UNCHANGED <<sin, sclock, sstatus, sengine, epending>>
    /\ UNCHANGED sreadyoks
    /\ UNCHANGED Others

\* "Clean up": write "quit", then process.wait(timeout=2)
Cleanup ==
    /\ spc = "cleanup"
    /\ Write(<<"quit">>, 0, "wait_exit")
    /\ UNCHANGED <<sout, scollected, sclock, sengine>>
    /\ UNCHANGED sreadyoks
    /\ UNCHANGED Others

\* process.wait(timeout=2) returns: the process has exited; the output is
\* parsed and the handler answers 200
WaitExit ==
    /\ spc = "wait_exit"
    /\ sengine = "exited"
    /\ spc' = "done"
    /\ sstatus' = 200
    /\ UNCHANGED <<sin, sout, scollected, sclock, sengine, epending>>
    /\ UNCHANGED sreadyoks
    /\ UNCHANGED Others

\* process.wait(timeout=2) raises TimeoutExpired: the handler answers 504
WaitExitTimeout ==
    /\ spc = "wait_exit"
    /\ sengine # "exited"
    /\ spc' = "raised"
    /\ sstatus' = 504
    /\ UNCHANGED <<sin, sout, scollected, sclock, sengine, epending>>
    /\ UNCHANGED sreadyoks
    /\ UNCHANGED Others

\* the steps of the session itself
SessionStep ==
    \/ SessionStart
    \/ WaitReady1
    \/ WaitReady2
    \/ LoopCheck
    \/ ReadLine
    \/ Cleanup
    \/ WaitExit
    \/ WaitExitTimeout

\* the engine writes its next line
EngineEmit ==
    /\ sengine = "running"
    /\ epending # <<>>
    /\ sout' = Append(sout, Head(epending))
    /\ epending' = Tail(epending)
    /\ UNCHANGED <<spc, sin, scollected, sclock, sstatus, sengine>>
    /\ UNCHANGED sreadyoks
    /\ UNCHANGED Others

\* the engine stops writing for good while its process stays alive
EngineHang ==
    /\ sengine = "running"
    /\ spc \notin {"done", "raised"}
    /\ sengine' = "hung"
    /\ epending' = <<>>
    /\ UNCHANGED <<spc, sin, sout, scollected, sclock, sstatus>>
    /\ UNCHANGED sreadyoks
    /\ UNCHANGED Others

\* the engine process exits: it has read "quit", or it crashes
EngineExit ==
    /\ sengine = "running"
    /\ spc \notin {"done", "raised"}
    /\ sengine' = "exited"
    /\ epending' = <<>>
    /\ UNCHANGED <<spc, sin, sout, scollected, sclock, sstatus>>
    /\ UNCHANGED sreadyoks
    /\ UNCHANGED Others

\* time passes while the session is in its read loop
Tick ==
    /\ spc \in {"loop", "readline"}
    /\ sclock + TickSeconds <= MaxClock
    /\ sclock' = sclock + TickSeconds
    /\ UNCHANGED <<spc, sin, sout, scollected, sstatus, sengine, epending>>
    /\ UNCHANGED sreadyoks
    /\ UNCHANGED Others

NextSession == SessionStep \/ EngineEmit \/ EngineHang \/ EngineExit \/ Tick

----------------------------------------------------------------------------
(* The puzzle trainer: PracticePage                                        *)
(* Tk runs one callback at a time; a handler that raises is reported by Tk *)
(* and the main loop goes on.                                              *)

\* puzzles on one practice page
MaxPuzzles == 3

\* wrong answers counted on one puzzle
MaxAttempts == 2

\* the puzzles of the page, as far as is_correct_move reads them
Puzzle(correct, acceptable) == [correct_move_uci |-> correct, acceptable_moves |-> acceptable]

AllBlunders ==
    <<Puzzle("g1f3", <<"d2d4">>), Puzzle("e7e5", <<>>), Puzzle("g1f3", <<>>),
      Puzzle("d2d4", <<"e7e5">>)>>

\* self.blunders[i] for a 0-based i < tnum
Blunder(i) == AllBlunders[i + 1]

\* moves the board can hand to on_move
UserMoves == {"g1f3", "d2d4", "e7e5", "a2a3"}

\* is_correct_move(move, blunder)
is_correct_move(move_uci, blunder) ==
    \/ move_uci = blunder.correct_move_uci
    \/ \E k \in 1..Len(blunder.acceptable_moves) : move_uci = blunder.acceptable_moves[k]

NoEvent == [handler |-> "none", index |-> 0, shown |-> 0 - 1, outcome |-> "none"]

\* the record of a user event: index is the current_index the handler
\* subscripts self.blunders with, shown the puzzle on the board at that time
Event(handler, outcome) ==
    [handler |-> handler, index |-> current_index, shown |-> tshown, outcome |-> outcome]

InitTrainer ==
    /\ tpc = "closed"
    /\ tnum = 0
    /\ current_index = 0
    /\ solved = 0
    /\ skipped = 0
    /\ attempts = 0
    /\ tshown = 0 - 1
    /\ ttimers = 0
    /\ tevent = NoEvent

NotTrainer == <<pvars, avars, nvars, wvars, svars, evars>>

\* PracticePage.__init__ on a non-empty puzzle list, with its load_puzzle()
PracticeOpen ==
    /\ tpc = "closed"
    /\ \E n \in 1..MaxPuzzles : tnum' = n
    /\ tpc' = "open"
    /\ tshown' = 0
    /\ UNCHANGED <<current_index, solved, skipped, attempts, ttimers, tevent>>
    /\ UNCHANGED NotTrainer

\* a scheduled load_puzzle runs
load_puzzle ==
    /\ tpc = "open"
    /\ ttimers > 0
    /\ ttimers' = ttimers - 1
    /\ IF current_index >= tnum
       THEN /\ tpc' = "results"
            /\ UNCHANGED <<tshown, attempts>>
       ELSE /\ tshown' = current_index
            /\ attempts' = 0
            /\ UNCHANGED tpc
    /\ UNCHANGED <<tnum, current_index, solved, skipped, tevent>>
    /\ UNCHANGED NotTrainer

\* the board hands a move to on_move
on_move ==
    /\ tpc = "open"
    /\ \E move \in UserMoves :
          IF current_index >= tnum
          THEN /\ tevent' = Event("on_move", "IndexError")
               /\ UNCHANGED <<current_index, solved, attempts, ttimers>>
          ELSE IF is_correct_move(move, Blunder(current_index))
          THEN /\ tevent' = Event("on_move", "correct")
               /\ solved' = solved + 1
               /\ current_index' = current_index + 1
               /\ ttimers' = ttimers + 1
               /\ UNCHANGED attempts
          ELSE /\ attempts < MaxAttempts
               /\ tevent' = Event("on_move", "wrong")
               /\ attempts' = attempts + 1
               /\ UNCHANGED <<current_index, solved, ttimers>>
    /\ UNCHANGED <<tpc, tnum, skipped, tshown>>
    /\ UNCHANGED NotTrainer

\* mutation: a skip moves on without counting itself
skip_puzzle_uncounted ==
    /\ tpc = "open"
    /\ current_index < tnum
    /\ tevent' = Event("skip_puzzle", "skipped")
    /\ current_index' = current_index + 1
    /\ ttimers' = ttimers + 1
    /\ UNCHANGED <<tpc, tnum, solved, skipped, attempts, tshown>>
    /\ UNCHANGED NotTrainer

\* the Skip button
skip_puzzle ==
    /\ tpc = "open"
    /\ IF current_index >= tnum
       THEN /\ tevent' = Event("skip_puzzle", "IndexError")
            /\ UNCHANGED <<current_index, skipped, ttimers>>
       ELSE /\ tevent' = Event("skip_puzzle", "skipped")
            /\ skipped' = skipped + 1
            /\ current_index' = current_index + 1
            /\ ttimers' = ttimers + 1
    /\ UNCHANGED <<tpc, tnum, solved, attempts, tshown>>
    /\ UNCHANGED NotTrainer

\* the Hint button
show_hint ==
    /\ tpc = "open"
    /\ tevent' = Event("show_hint", IF current_index >= tnum THEN "IndexError" ELSE "shown")
    /\ UNCHANGED <<tpc, tnum, current_index, solved, skipped, attempts, tshown, ttimers>>
    /\ UNCHANGED NotTrainer

\* the Show Answer button
show_answer ==
    /\ tpc = "open"
    /\ tevent' = Event("show_answer", IF current_index >= tnum THEN "IndexError" ELSE "shown")
    /\ UNCHANGED <<tpc, tnum, current_index, solved, skipped, attempts, tshown, ttimers>>
    /\ UNCHANGED NotTrainer

NextTrainer ==
    PracticeOpen \/ load_puzzle \/ on_move \/ skip_puzzle \/ show_hint \/ show_answer

----------------------------------------------------------------------------
(* Specifications *)

Init == InitParse /\ InitApi /\ InitNorm /\ InitWalk /\ InitService /\ InitSession /\ InitTrainer

\* parse_stockfish_output over one engine output
SpecParse == Init /\ [][NextParse]_vars

\* calls of /analyze and /evaluate, one at a time
SpecApi == Init /\ [][NextApi]_vars

\* the score normalisers
SpecNorm == Init /\ [][NextNorm]_vars

\* analyze_game over one game
SpecWalk == Init /\ [][NextWalk]_vars

\* one run of lambda_handler.analyze_position against its engine process
SpecSession == Init /\ [][NextSession]_vars

\* one practice page of the puzzle trainer under user events and timers
SpecTrainer == Init /\ [][NextTrainer]_vars

\* the REST service under concurrent requests
Next == NextService

Spec == Init /\ [][Next]_vars

\* the same, the server never stopping while it has a step to take: the event
\* loop runs a ready handler and every ENGINE.analyse call returns or raises
FairSpec == Spec /\ WF_vars(ServiceStep)


----------------------------------------------------------------------------
(* Claims *)

(* C1: while parse_stockfish_output folds over the lines, the record kept  *)
(* for a multipv rank is only ever replaced by a record of strictly        *)
(* greater depth: per rank the kept depth never decreases and a record of  *)
(* equal or lower depth never displaces the kept one.                      *)

Kept(lines, r) == {lines[k] : k \in {j \in 1..Len(lines) : lines[j].multipv = r}}

C1_MonotonicDepth ==
    [][\A old \in {plines[k] : k \in 1..Len(plines)} :
          \E new \in Kept(plines', old.multipv) :
              /\ Cardinality(Kept(plines', old.multipv)) = 1
              /\ new.depth >= old.depth
              /\ (new # old => new.depth > old.depth)]_vars

\* a kept record has just been displaced by a deeper one of its rank
C1_Witness ==
    /\ pevent = "replaced"
    /\ Len(plines) = 2
    /\ plines[2].depth = 2

(* C2: every entry of best_moves returned by the position analysis has     *)
(* exactly one of eval_cp and mate_in populated.                           *)
(* The code leaves both unset for an info that has a pv but no score.      *)

C2_ExactlyOneAlways ==
    \A k \in 1..Len(aresp.best_moves) :
        aresp.best_moves[k].eval_cp.some # aresp.best_moves[k].mate_in.some

\* the infos of the analysis that yield an entry, in order
RECURSIVE WithPv(_)
WithPv(infos) ==
    IF Len(infos) = 0 THEN <<>>
    ELSE IF infos[1].has_pv /\ Len(infos[1].pv) > 0
         THEN <<infos[1]>> \o WithPv(SubSeq(infos, 2, Len(infos)))
         ELSE WithPv(SubSeq(infos, 2, Len(infos)))

\* amended: never both; exactly one when the engine info carries a score,
\* and neither when it carries none
C2_ExactlyOneWhenScored ==
    (areq.kind = "analyze" /\ apc = "done" /\ aresp.status = "200") =>
        /\ Len(aresp.best_moves) = Len(WithPv(abefore.infos))
        /\ \A k \in 1..Len(aresp.best_moves) :
             LET m == aresp.best_moves[k]
                 info == WithPv(abefore.infos)[k]
             IN  /\ ~(m.eval_cp.some /\ m.mate_in.some)
                 /\ info.score.present => (m.eval_cp.some # m.mate_in.some)
                 /\ ~info.score.present => (~m.eval_cp.some /\ ~m.mate_in.some)

\* an analysis returned two entries, one with a centipawn value, one with a mate
C2_Witness ==
    /\ areq.kind = "analyze" /\ apc = "done" /\ aresp.status = "200"
    /\ Len(aresp.best_moves) = 2
    /\ aresp.best_moves[1].eval_cp.some
    /\ aresp.best_moves[2].mate_in.some

(* C3: for every raw centipawn score v, normalising for white gives v and  *)
(* normalising for black gives -v: the two are exact negations.            *)

C3_Negation ==
    (nraw.present /\ nraw.type = "cp") =>
        /\ nwhite.cp = Some(nraw.value)
        /\ nblack.cp = Some(0 - nraw.value)
        /\ nwhite.cp.v = 0 - nblack.cp.v
        /\ nwalkwhite = nraw.value
        /\ nwalkblack = 0 - nraw.value

\* the raw score 150 normalised to 150 for white and -150 for black
C3_Witness ==
    /\ nraw = Cp(150)
    /\ nwhite.cp = Some(150)
    /\ nblack.cp = Some(0 - 150)

(* C4: evaluating a well-formed move that is not legal in the position     *)
(* returns is_legal = false with every eval field and the best move unset, *)
(* and makes no engine analysis call.                                      *)

IllegalMoveCall ==
    /\ areq.kind = "evaluate" /\ areq.fen_ok /\ areq.move_ok /\ ~areq.legal
    /\ apc # "idle"

C4_IllegalMoveNoEngine ==
    IllegalMoveCall =>
        /\ apc = "done"
        /\ acalls = 0
        /\ aresp.status = "200"
        /\ ~aresp.is_legal
        /\ ~aresp.eval_before_cp.some
        /\ ~aresp.eval_after_cp.some
        /\ ~aresp.eval_drop_cp.some
        /\ aresp.best_move_uci = None

\* an illegal move has been evaluated by the REST handler
C4_Witness ==
    /\ IllegalMoveCall
    /\ abackend = "app"
    /\ apc = "done"
    /\ ~aresp.is_legal

(* C5: for every analysed ply of the tracked side, is_blunder is true       *)
(* exactly when drop_cp = best_eval - played_eval is at least              *)
(* BLUNDER_THRESHOLD_CP (100): a drop of 100 is a blunder, one of 99 not.  *)

C5_BlunderThreshold ==
    \A k \in 1..Len(wanalyses) :
        LET a == wanalyses[k]
        IN  /\ a.drop_cp = a.eval_before_cp - a.eval_after_cp
            /\ a.is_blunder <=> (a.drop_cp >= 100)
            /\ a.side = wuser

\* a walk met a drop of exactly 100 (a blunder) and one of 99 (not a blunder)
C5_Witness ==
    /\ \E k \in 1..Len(wanalyses) : wanalyses[k].drop_cp = 100 /\ wanalyses[k].is_blunder
    /\ \E k \in 1..Len(wanalyses) : wanalyses[k].drop_cp = 99 /\ ~wanalyses[k].is_blunder

(* C6: over a whole game walk a BlunderPuzzle is emitted for a ply if and  *)
(* only if the MoveAnalysis of that ply has is_blunder = true, exactly one *)
(* puzzle per such ply, and the puzzle's correct move is that analysis's   *)
(* best move (the first line of top_moves), its fen is fen_before and its  *)
(* eval_drop_cp is drop_cp.                                                *)

PuzzlesAt(ply) == {k \in 1..Len(wblunders) : wblunders[k].ply = ply}
AnalysesAt(ply) == {k \in 1..Len(wanalyses) : wanalyses[k].ply = ply}

C6_PuzzleIffBlunder ==
    /\ \A k \in 1..Len(wanalyses) :
          /\ Cardinality(AnalysesAt(wanalyses[k].ply)) = 1
          /\ Cardinality(PuzzlesAt(wanalyses[k].ply))
                = (IF wanalyses[k].is_blunder THEN 1 ELSE 0)
    /\ \A k \in 1..Len(wblunders) :
          \E j \in AnalysesAt(wblunders[k].ply) :
             /\ wanalyses[j].is_blunder
             /\ wblunders[k].correct_move_uci = wanalyses[j].best_move_uci
             /\ wblunders[k].fen = wanalyses[j].fen_before
             /\ wblunders[k].eval_drop_cp = wanalyses[j].drop_cp
    /\ (Len(wanalyses) > 0 /\ wanalyses[Len(wanalyses)].ply = wply - 1) =>
          /\ Len(wtop) > 0
          /\ wanalyses[Len(wanalyses)].best_move_uci = wtop[1].move_uci

\* a returned walk with two analysed plies, the first not a blunder and the
\* second a blunder with its puzzle
C6_Witness ==
    /\ wpc = "returned"
    /\ Len(wanalyses) = 2
    /\ ~wanalyses[1].is_blunder
    /\ wanalyses[2].is_blunder
    /\ Len(wblunders) = 1
    /\ wblunders[1].ply = 2
    /\ wblunders[1].correct_move_uci = "d2d4"

(* C7: under any interleaving of concurrently submitted /analyze and       *)
(* /evaluate requests at most one engine analysis is in flight on the      *)
(* shared ENGINE at any time; the before- and after-analysis of one        *)
(* evaluate request never overlap with another request's analysis.         *)

C7_OneAnalysisInFlight ==
    /\ Cardinality(InFlight) <= 1
    /\ \A r \in InFlight : \A q \in Requests \ {r} : rstate[q] # "running"

\* an evaluate request is in its after-analysis while another request,
\* submitted meanwhile, waits
C7_Witness ==
    \E r, q \in Requests :
        /\ r # q
        /\ rkind[r] = "evaluate" /\ rstate[r] = "running" /\ rpc[r] = "after"
        /\ rstate[q] = "queued" /\ rwaited[q]

(* C8: when more requests are submitted concurrently than there are engine *)
(* sessions, no request is dropped: every submitted request eventually     *)
(* completes with a result or fails with an HTTP error.                    *)

C8_EveryRequestCompletes ==
    \A r \in Requests :
        (rstate[r] = "queued") ~>
            (rstate[r] = "done" /\ routcome[r] \in {"200", "400", "500", "503"})

\* every request is done, and one that had to wait was answered 200
C8_Witness ==
    /\ \A r \in Requests : rstate[r] = "done"
    /\ \E r \in Requests : rwaited[r] /\ routcome[r] = "200"
    /\ \E r \in Requests : ~rwaited[r]

(* C9: after the engine process crashes during one request, only that      *)
(* request fails: a later analysis request on a valid position is not made *)
(* to fail by the earlier crash.                                           *)
(* The code never replaces ENGINE, so every later /analyze answers 500.    *)

C9_OnlyTheCrashedRequestFails ==
    \A r \in Requests :
        (rstate[r] = "done" /\ routcome[r] = "500") => rfailed[r]

(* C10: an analyze cycle always terminates: if the engine process stays    *)
(* alive but never writes another line, the read loop still ends once the  *)
(* deadline has elapsed; the session is never blocked for good.            *)
(* The deadline is only looked at between two readline() calls, and        *)
(* readline() does not return while the pipe is empty and the process      *)
(* alive.                                                                  *)

InReadLoop == spc \in {"loop", "readline"}

C10_ReadLoopEndsAtDeadline ==
    (InReadLoop /\ sengine = "hung" /\ sout = <<>> /\ sclock >= READ_TIMEOUT_S)
        => ENABLED SessionStep

(* C11: session startup always terminates: when the engine never writes   *)
(* the readiness token (it is silent, or has exited so that reads return   *)
(* end of file), the handshake wait ends with a startup failure instead of *)
(* looping or blocking for good.                                           *)
(* Both "Wait for readyok" loops are "while True" around readline(), with  *)
(* no deadline: on a silent live engine readline() does not return, and at *)
(* end of file it returns "" and the loop goes round again.                *)

InHandshakeWait == spc \in {"wait_ready1", "wait_ready2"}

NoReadinessToCome == sengine # "running" /\ sout = <<>>

C11_StartupTerminates ==
    (InHandshakeWait /\ NoReadinessToCome) => ENABLED (SessionStep /\ spc' # spc)

(* C12: when the deadline of an analyze cycle elapses and no bestmove line *)
(* has been read, the call fails with a timeout error; it does not return  *)
(* a normal result built from the output collected so far.                 *)
(* The loop simply ends at the deadline; "quit", wait and the parse of the *)
(* partial output follow, and the handler answers 200.                     *)

BestmoveRead == \E i \in 1..Len(scollected) : scollected[i] = "bestmove"

SessionEnded == spc \in {"done", "raised"}

Written(cmd) == \E i \in 1..Len(sin) : sin[i] = cmd

C12_DeadlineIsATimeout ==
    (SessionEnded /\ Written("go") /\ ~BestmoveRead) => sstatus # 200

(* C13: a request whose position string is malformed is rejected with an  *)
(* invalid-position error (HTTP 400 from /analyze and /evaluate; the       *)
(* ValueError of chess.Board from the local backend) and no engine         *)
(* analysis is run for it.                                                 *)

MalformedFenCall == apc = "done" /\ areq.kind # "none" /\ ~areq.fen_ok

C13_MalformedFenRejected ==
    MalformedFenCall =>
        /\ aresp.status = (IF abackend = "app" THEN "400" ELSE "raised")
        /\ acalls = 0
        /\ abefore = NoAnalysis
        /\ aafter = NoAnalysis

C13_Witness ==
    /\ MalformedFenCall
    /\ abackend = "app"
    /\ areq.kind = "evaluate"
    /\ areq.move_ok /\ areq.legal
    /\ aresp.status = "400"

(* C14: for every analysis request, whenever a depth is set the search    *)
(* limit used is that depth and the time value is ignored; the time limit  *)
(* is used only when no depth is set. This holds for the REST handler, the *)
(* local backend and the payload built by the cloud backend.               *)
(* The code tests "if depth:", so a depth of 0 counts as no depth.         *)

\* an analysis call that got as far as choosing its limit
LimitChosen == apc = "done" /\ areq.kind = "analyze" /\ areq.fen_ok

PayloadBuilt == apc = "done" /\ areq.kind = "analyze" /\ abackend = "cloud"

DepthUsed(d) ==
    /\ LimitChosen => aresp.limit = [kind |-> "depth", value |-> d]
    /\ PayloadBuilt => (apayload.has_depth /\ apayload.depth = d /\ ~apayload.has_time)

TimeUsed ==
    /\ LimitChosen => aresp.limit.kind = "time"
    /\ PayloadBuilt => (apayload.has_time /\ ~apayload.has_depth)

\* as stated: a depth that is set, whatever its value, is the limit
C14_DepthWheneverSet ==
    /\ areq.depth.some => DepthUsed(areq.depth.v)
    /\ ~areq.depth.some => TimeUsed

\* as the code has it: a depth that is set and not 0 is the limit, and the
\* time limit is used when the depth is unset or 0
C14_DepthWhenNonZero ==
    /\ (areq.depth.some /\ areq.depth.v # 0) => DepthUsed(areq.depth.v)
    /\ (~areq.depth.some \/ areq.depth.v = 0) => TimeUsed

C14_Witness ==
    /\ LimitChosen
    /\ PayloadBuilt
    /\ areq.depth = Some(12)
    /\ areq.time = Some(1)
    /\ aresp.limit = [kind |-> "depth", value |-> 12]
    /\ apayload.has_depth

(* C15: for a legal move, eval_drop_cp equals eval_before_cp minus         *)
(* eval_after_cp whenever both are centipawn values, and is unset whenever *)
(* either of them is unset, which includes every case where the score      *)
(* before or after the move is a mate score.                               *)

LegalEvaluation ==
    apc = "done" /\ areq.kind = "evaluate" /\ aresp.status = "200" /\ aresp.is_legal

\* the raw score of the first info of an analysis, NoScore if there is none
FirstScore(an) == IF Len(an.infos) > 0 THEN an.infos[1].score ELSE NoScore

IsMateScore(sc) == sc.present /\ sc.type = "mate"

IsCpScore(sc) == sc.present /\ sc.type = "cp"

C15_DropIsDifferenceOrUnset ==
    LegalEvaluation =>
        /\ (aresp.eval_before_cp.some /\ aresp.eval_after_cp.some)
              => aresp.eval_drop_cp
                    = Some(aresp.eval_before_cp.v - aresp.eval_after_cp.v)
        /\ (~aresp.eval_before_cp.some \/ ~aresp.eval_after_cp.some)
              => aresp.eval_drop_cp = NoneV
        /\ IsMateScore(FirstScore(abefore))
              => (~aresp.eval_before_cp.some /\ aresp.eval_drop_cp = NoneV)
        /\ IsMateScore(FirstScore(aafter))
              => (~aresp.eval_after_cp.some /\ aresp.eval_drop_cp = NoneV)

C15_Witness ==
    /\ LegalEvaluation
    /\ FirstScore(abefore) = Cp(120)
    /\ FirstScore(aafter) = Cp(0 - 50)
    /\ areq.turn = WHITE
    /\ aresp.eval_drop_cp = Some(170)

(* C16: if the engine fails (raises or has died) during the analysis       *)
(* before or after the move, the failure surfaces to the caller as an      *)
(* error; the evaluator never returns a successful is_legal = true result  *)
(* that leaves out the evaluations the failed analysis was to supply.      *)
(* app.evaluate_move wraps each analysis in "except Exception" and sets    *)
(* the evaluations to None.                                                *)

C16_EngineFailureSurfaces ==
    (apc = "done" /\ areq.kind = "evaluate" /\ (abefore.raised \/ aafter.raised))
        => ~(aresp.status = "200" /\ aresp.is_legal)

(* C19: for a raw mate score with mate count m, in white's frame, the      *)
(* normaliser returns mate_in = m with the same sign and no centipawn      *)
(* value for both requested sides; the side never changes the sign.        *)

C19_MatePassesThrough ==
    IsMateScore(nraw) =>
        /\ nwhite = [cp |-> NoneV, mate_in |-> Some(nraw.value)]
        /\ nblack = [cp |-> NoneV, mate_in |-> Some(nraw.value)]

C19_Witness ==
    /\ nraw = Mate(0 - 2)
    /\ nblack.mate_in = Some(0 - 2)
    /\ ~nblack.cp.some

(* C20: in a legal move evaluation with centipawn scores, eval_before_cp   *)
(* and eval_after_cp are both from the side that makes the move: a raw     *)
(* score w, in white's frame, of the position after the move gives         *)
(* eval_after_cp = w for a white mover and -w for a black mover, and the   *)
(* same holds of the score before the move.                                *)

FromMover(w) == IF areq.turn = WHITE THEN w ELSE 0 - w

C20_MoverPerspective ==
    LegalEvaluation =>
        /\ aresp.eval_before_cp.some
              => (IsCpScore(FirstScore(abefore))
                    /\ aresp.eval_before_cp.v = FromMover(FirstScore(abefore).value))
        /\ (IsCpScore(FirstScore(aafter)) /\ ~aafter.raised)
              => aresp.eval_after_cp = Some(FromMover(FirstScore(aafter).value))
        /\ aresp.eval_after_cp.some => IsCpScore(FirstScore(aafter))

C20_Witness ==
    /\ LegalEvaluation
    /\ areq.turn = BLACK
    /\ FirstScore(abefore) = Cp(0 - 50)
    /\ FirstScore(aafter) = Cp(120)
    /\ aresp.eval_before_cp = Some(50)
    /\ aresp.eval_after_cp = Some(0 - 120)

(* C17: in every session run the MultiPV option command is followed by a  *)
(* readiness check, and "position" and "go" are written only after the     *)
(* readyok answering that check has been read; no search command goes out  *)
(* between the option command and its readyok.                             *)

IndexOf(cmd) == CHOOSE i \in 1..Len(sin) : sin[i] = cmd

Count(cmd) == Cardinality({i \in 1..Len(sin) : sin[i] = cmd})

SearchCommandWritten == Written("position") \/ Written("go")

C17_SearchAfterOptionRoundTrip ==
    /\ Written("setoption") =>
          /\ IndexOf("setoption") < Len(sin)
          /\ sin[IndexOf("setoption") + 1] = "isready"
    /\ SearchCommandWritten =>
          /\ Written("setoption")
          /\ IndexOf("setoption") < IndexOf("position")
          /\ IndexOf("position") < IndexOf("go")
          /\ sreadyoks = Count("isready")
          /\ sreadyoks = 2

C17_Witness ==
    /\ spc = "readline"
    /\ sin = <<"uci", "isready", "setoption", "isready", "position", "go">>
    /\ sreadyoks = 2

(* C18: closing a session sends the termination command and waits briefly; *)
(* if the process has not exited when the wait expires the session         *)
(* force-terminates it, so that once close has returned or failed no       *)
(* engine process of the session is left running.                          *)
(* process.wait(timeout=2) raises TimeoutExpired, the handler answers 504, *)
(* and nothing calls kill() or terminate().                                *)

C18_NoProcessLeftRunning ==
    (SessionEnded /\ Written("quit")) => sengine = "exited"

(* C21: an output line that is not a complete exact-score analysis record *)
(* (a non-info line, a line without a depth, score or pv marker, a line    *)
(* with a non-integer depth, score or rank, a line whose score is an       *)
(* upperbound or lowerbound) is ignored: no error, and the per-rank        *)
(* records and the best move stay exactly as they were before the line.    *)
(* A bestmove line is a non-info line and sets the best move.              *)

\* the token after tok exists and is an integer literal
IntAfter(parts, tok) ==
    /\ IndexAfter(parts, tok) <= Len(parts)
    /\ IsIntTok(parts[IndexAfter(parts, tok)])

\* the score value is the second token after "score"
ScoreValueIsInt(parts) ==
    /\ IndexAfter(parts, "score") + 1 <= Len(parts)
    /\ IsIntTok(parts[IndexAfter(parts, "score") + 1])

NotARecord(parts) ==
    \/ ~StartsWith(parts, "info")
    \/ ~InParts(parts, "depth") \/ ~InParts(parts, "score") \/ ~InParts(parts, "pv")
    \/ ~IntAfter(parts, "depth")
    \/ ~ScoreValueIsInt(parts)
    \/ (InParts(parts, "multipv") /\ ~IntAfter(parts, "multipv"))
    \/ InParts(parts, "upperbound") \/ InParts(parts, "lowerbound")

LineConsumed == ppc = "loop" /\ pn' = pn + 1

\* as stated: every line that is not a record
C21_NonRecordIgnored ==
    [][(LineConsumed /\ NotARecord(pline'))
          => (plines' = plines /\ pbest' = pbest)]_vars

\* bestmove lines apart
C21_NonRecordNonBestmoveIgnored ==
    [][(LineConsumed /\ NotARecord(pline') /\ ~StartsWith(pline', "bestmove"))
          => (plines' = plines /\ pbest' = pbest)]_vars

C21_Witness ==
    /\ pn = 3
    /\ InParts(pline, "upperbound")
    /\ Len(plines) = 1
    /\ pbest = "e2e4"

(* C22: when the output has a bestmove line, the result's bestmove is the  *)
(* move named on that line in every case, also when no record was          *)
(* accepted; empty lines with a bestmove are a normal result, not an       *)
(* error.                                                                  *)

NamesMove(parts) == StartsWith(parts, "bestmove") /\ Len(parts) >= 2

C22_BestmoveFromItsLine ==
    [][/\ (LineConsumed /\ NamesMove(pline'))
            => (pbest' = pline'[2] /\ plines' = plines)
       /\ (LineConsumed /\ ~NamesMove(pline')) => pbest' = pbest
       /\ (ppc = "loop" /\ ppc' = "returned" /\ pbest # None)
            => (presult'.bestmove = pbest /\ ~presult'.raised)]_vars

C22_Witness ==
    /\ ppc = "returned"
    /\ NamesMove(pline)
    /\ plines = <<>>
    /\ presult = [lines |-> <<>>, bestmove |-> "d2d4", raised |-> FALSE]

(* C23: the returned lines list holds at most one record per multipv rank  *)
(* and is ordered by strictly increasing rank; a record without a multipv  *)
(* marker counts as rank 1.                                                *)

StrictlyIncreasingRank(lines) ==
    \A i, j \in 1..Len(lines) : i < j => lines[i].multipv < lines[j].multipv

OnePerRank(lines) ==
    \A i, j \in 1..Len(lines) : lines[i].multipv = lines[j].multipv => i = j

\* the last line was a record without a rank marker
UnrankedRecord ==
    pevent # "start" /\ ~NotARecord(pline) /\ HasPvInfix(pline)
        /\ ~InParts(pline, "multipv")

C23_OnePerRankInRankOrder ==
    /\ OnePerRank(plines)
    /\ ppc = "returned" =>
          /\ StrictlyIncreasingRank(presult.lines)
          /\ Len(presult.lines) = Len(plines)
          /\ \A i \in 1..Len(plines) :
                \E j \in 1..Len(presult.lines) : presult.lines[j] = plines[i]
    /\ UnrankedRecord =>
          \E i \in 1..Len(plines) :
             /\ plines[i].multipv = 1
             /\ plines[i].depth >= IntOf(pline[IndexAfter(pline, "depth")])

C23_Witness ==
    /\ ppc = "returned"
    /\ Len(plines) = 2
    /\ plines[1].multipv = 2
    /\ presult.lines[1].multipv = 1
    /\ UnrankedRecord

(* C24: during a game walk the engine is invoked only at plies where the  *)
(* side to move is the tracked side: at every other ply the move is        *)
(* applied with no engine call and no record, and every MoveAnalysis has   *)
(* side equal to the tracked side; when the tracked user is neither        *)
(* player the walk returns empty results without any engine call.          *)

PlyExamined == wpc = "loop" /\ wply' = wply + 1

C24_EngineOnlyOnTrackedSide ==
    [][/\ (PlyExamined /\ TurnOf(wboard) # wuser)
            => /\ wcalls' = wcalls
               /\ wanalyses' = wanalyses
               /\ wblunders' = wblunders
               /\ wboard' = Append(wboard, GameMoves[wply + 1])
       /\ \A i \in 1..Len(wanalyses') : wanalyses'[i].side = wuser'
       /\ wuser' = "none"
            => (wpc' = "returned" /\ wcalls' = 0 /\ wanalyses' = <<>> /\ wblunders' = <<>>)]_vars

C24_Witness ==
    /\ wuser = BLACK
    /\ wply = 3
    /\ wcalls = 2
    /\ Len(wanalyses) = 1
    /\ wanalyses[1].ply = 1
    /\ wanalyses[1].side = BLACK

(* C25: every move of the move list is applied to the current position     *)
(* exactly once and in order, whichever branch handles the ply: when ply k *)
(* is examined the position is the initial one with exactly the first k    *)
(* moves applied, and fen_before of each MoveAnalysis is that position.    *)

FirstMoves(k) == SubSeq(GameMoves, 1, k)

C25_PositionFollowsTheMoveList ==
    /\ wboard = FirstMoves(wply)
    /\ \A i \in 1..Len(wanalyses) :
          wanalyses[i].fen_before = FirstMoves(wanalyses[i].ply)

C25_Witness ==
    /\ wuser = WHITE
    /\ wply = 3
    /\ wcalls = 3
    /\ Len(wanalyses) = 1
    /\ wanalyses[1].ply = 2
    /\ wanalyses[1].fen_before = <<"e2e4", "e7e5">>
    /\ wboard = <<"e2e4", "e7e5", "d1h5">>

(* C26: for every analysed ply acceptable_moves is exactly the candidate   *)
(* lines whose loss best_eval - eval is strictly below the blunder         *)
(* threshold, in rank order; the best line is always a member, and a       *)
(* candidate losing exactly 100 centipawns is not.                         *)

\* wtop is not empty exactly when it belongs to the last MoveAnalysis
LastAnalysis == wanalyses[Len(wanalyses)]

LosesLessThanThreshold(m) == wtop[1].eval_cp - m.eval_cp < 100

C26_AcceptableMoves ==
    wtop # <<>> =>
        /\ wanalyses # <<>>
        /\ LastAnalysis.acceptable_moves = SelectSeq(wtop, LosesLessThanThreshold)
        /\ LastAnalysis.acceptable_moves[1] = wtop[1]
        /\ \A i \in 1..Len(LastAnalysis.acceptable_moves) :
              wtop[1].eval_cp - LastAnalysis.acceptable_moves[i].eval_cp # 100

C26_Witness ==
    /\ Len(wtop) = 3
    /\ wtop[1].eval_cp = 100
    /\ wtop[2].eval_cp = 0
    /\ wtop[3].eval_cp = 100
    /\ Len(LastAnalysis.acceptable_moves) = 2
    /\ LastAnalysis.acceptable_moves[2] = wtop[3]

(* C27: in the blunder walk a mate score never takes part in drop          *)
(* arithmetic: when the best-line score or the played-move score is a mate *)
(* score, drop_cp and the blunder decision are not obtained by subtracting *)
(* a numeric encoding of the mate count.                                   *)
(* test_engines.get_eval_cp turns mate in m into 100000 - 100 m (or        *)
(* -100000 - 100 m) and analyze_game subtracts those numbers.              *)

MateInvolved == IsMateScore(wraw.best) \/ IsMateScore(wraw.post)

\* the difference of the scores with a mate count written as a number
EncodedDifference ==
    walk_get_eval_cp(wraw.best, LastAnalysis.side)
        - (0 - walk_get_eval_cp(wraw.post, Opposite(LastAnalysis.side)))

C27_NoMateInDropArithmetic ==
    (wtop # <<>> /\ MateInvolved) =>
        /\ LastAnalysis.drop_cp # EncodedDifference
        /\ LastAnalysis.is_blunder # (EncodedDifference >= BLUNDER_THRESHOLD_CP)

(* C28: in the puzzle trainer no handler reads past the puzzle list: for  *)
(* every sequence of user events (move, Skip, Hint, Show Answer) and       *)
(* deferred load_puzzle callbacks, current_index is smaller than the       *)
(* number of puzzles whenever a handler reads blunders[current_index],     *)
(* also for events that arrive after the last puzzle was solved or skipped *)
(* and before its deferred load_puzzle has run.                            *)
(* on_move and skip_puzzle advance current_index at once and only          *)
(* schedule load_puzzle; nothing disables the board or the buttons         *)
(* meanwhile.                                                              *)

EventHandled == tevent.handler # "none"

C28_NoReadPastTheList ==
    EventHandled => (tevent.index < tnum /\ tevent.outcome # "IndexError")

(* C29: the puzzle against which a move is judged is always the puzzle     *)
(* whose position the board shows: a move or Skip arriving between a       *)
(* correct answer (or skip) and the deferred load_puzzle is never judged   *)
(* against, or counted for, the next puzzle while the board still shows    *)
(* the previous one.                                                       *)

JudgedOrCounted ==
    tevent.handler \in {"on_move", "skip_puzzle"}
        /\ tevent.outcome \in {"correct", "wrong", "skipped"}

C29_JudgedPuzzleIsTheOneShown ==
    JudgedOrCounted => tevent.index = tevent.shown

(* C30: after any sequence of events solved + skipped equals               *)
(* current_index: current_index grows by exactly one on each correct       *)
(* answer and each skip, a wrong answer changes only the attempts counter, *)
(* and Hint and Show Answer change none of current_index, solved, skipped. *)

Counters == <<current_index, solved, skipped>>

UserEvent(handler, outcome) ==
    tevent' # tevent /\ tevent'.handler = handler /\ tevent'.outcome = outcome

SameEventAgain == tevent' = tevent /\ tpc = "open" /\ tpc' = "open" /\ ttimers' = ttimers

C30_CountersAddUp ==
    /\ [](solved + skipped = current_index)
    /\ [][/\ UserEvent("on_move", "correct")
               => (current_index' = current_index + 1 /\ solved' = solved + 1
                     /\ skipped' = skipped)
          /\ UserEvent("skip_puzzle", "skipped")
               => (current_index' = current_index + 1 /\ skipped' = skipped + 1
                     /\ solved' = solved)
          /\ UserEvent("on_move", "wrong")
               => (attempts' = attempts + 1 /\ Counters' = Counters)
          /\ (UserEvent("show_hint", "shown") \/ UserEvent("show_answer", "shown"))
               => (Counters' = Counters /\ attempts' = attempts)
          /\ SameEventAgain => Counters' = Counters]_vars

C30_Witness ==
    /\ tnum = 3
    /\ current_index = 2
    /\ solved = 1
    /\ skipped = 1
    /\ attempts = 1
    /\ tevent.handler = "show_hint"

====
